---- MODULE Spec2Model ----
(***************************************************************************)
(* The PLS playlist parser, plsParser, of app/utils/parsers/pls.js.        *)
(*                                                                         *)
(* A JavaScript string is the sequence of its characters (each a          *)
(* one-character string), so that slice, substring, indexOf, search,      *)
(* split, startsWith and the two regular expressions are computed         *)
(* character by character.  Indices are 0-based as in the source; the     *)
(* operators translate to the 1-based sequences of TLA+.                  *)
(* A JavaScript value is a tagged record: Str, Num or Undefined.          *)
(***************************************************************************)
EXTENDS Integers, Sequences, FiniteSets, TLC

\* ---------------------------------------------------------------- bounds
\* Largest number of lines that follow the first line of a document.
MaxLines == 3

\* ---------------------------------------------------------------- values
Str(cs) == [t |-> "string", v |-> cs]

Num(n) == [t |-> "number", v |-> n]

Undefined == [t |-> "undefined"]

\* `if (x)`: undefined, 0 and '' are falsy.
Truthy(x) ==
  CASE x.t = "undefined" -> FALSE
    [] x.t = "number" -> x.v # 0
    [] x.t = "string" -> x.v # << >>

\* obj[key] of a plain object: undefined when the key is absent.
Get(obj, key) == IF key \in DOMAIN obj THEN obj[key] ELSE Undefined

\* obj[key] = value: overwrites the key or adds it.
Put(obj, key, value) ==
  [k \in DOMAIN obj \cup {key} |-> IF k = key THEN value ELSE obj[k]]

\* ---------------------------------------------------------------- strings
Digits == {"0", "1", "2", "3", "4", "5", "6", "7", "8", "9"}

Min(a, b) == IF a < b THEN a ELSE b

Max(a, b) == IF a > b THEN a ELSE b

\* s.indexOf(c): 0-based position of the first c, -1 when there is none.
IndexOf(s, c) ==
  IF \E i \in 1..Len(s) : s[i] = c
  THEN (CHOOSE i \in 1..Len(s) : s[i] = c /\ \A j \in 1..(i - 1) : s[j] # c) - 1
  ELSE -1

\* s.search(/\d/): 0-based position of the first digit, -1 when there is none.
SearchDigit(s) ==
  IF \E i \in 1..Len(s) : s[i] \in Digits
  THEN (CHOOSE i \in 1..Len(s) :
          s[i] \in Digits /\ \A j \in 1..(i - 1) : s[j] \notin Digits) - 1
  ELSE -1

\* s.slice(from, to): a negative index counts from the end of the string.
Slice(s, from, to) ==
  LET rel(i) == IF i < 0 THEN Max(Len(s) + i, 0) ELSE Min(i, Len(s))
  IN SubSeq(s, rel(from) + 1, rel(to))

\* s.slice(from)
SliceFrom(s, from) == Slice(s, from, Len(s))

\* s.substring(from, to): a negative index is 0, and the two are swapped
\* when from > to.
Substring(s, from, to) ==
  LET clamp(i) == Min(Max(i, 0), Len(s))
      a == Min(clamp(from), clamp(to))
      b == Max(clamp(from), clamp(to))
  IN SubSeq(s, a + 1, b)

\* s.substring(from)
SubstringFrom(s, from) == Substring(s, from, Len(s))

\* s.startsWith(p)
StartsWith(s, p) == Len(s) >= Len(p) /\ SubSeq(s, 1, Len(p)) = p

\* s.split(sep) for a one-character separator (also split(/\n/)).
RECURSIVE Split(_, _)
Split(s, sep) ==
  LET i == IndexOf(s, sep)
  IN IF i = -1 THEN << s >>
     ELSE << SubSeq(s, 1, i) >> \o Split(SubSeq(s, i + 2, Len(s)), sep)

\* entry.slice(entry.indexOf('=') + 1) in the place of entry.split('=')[1]:
\* everything after the first `=`.
SplitSecond_RestOfLine(entry) ==
  IF IndexOf(entry, "=") = -1 THEN Undefined
  ELSE Str(SliceFrom(entry, IndexOf(entry, "=") + 1))

\* entry.split('=')[1]: the second element, undefined when there is none.
SplitSecond(entry) ==
  LET parts == Split(entry, "=")
  IN IF Len(parts) >= 2 THEN Str(parts[2]) ELSE Undefined

\* Ember.String.camelize: a run of separators (- _ . space) is dropped and
\* the character after it upper-cased, then a leading capital is lower-cased.
Separators == {"-", "_", ".", " "}

Upper ==
  [c \in {"f", "l", "t", "n", "v"} |->
     CASE c = "f" -> "F" [] c = "l" -> "L" [] c = "t" -> "T"
       [] c = "n" -> "N" [] c = "v" -> "V"]

Lower ==
  [c \in {"F", "L", "T", "N", "V"} |->
     CASE c = "F" -> "f" [] c = "L" -> "l" [] c = "T" -> "t"
       [] c = "N" -> "n" [] c = "V" -> "v"]

toUpperCase(c) == IF c \in DOMAIN Upper THEN Upper[c] ELSE c

toLowerCase(c) == IF c \in DOMAIN Lower THEN Lower[c] ELSE c

RECURSIVE camelizeSeparators(_, _)
camelizeSeparators(s, afterSep) ==
  IF s = << >> THEN << >>
  ELSE IF Head(s) \in Separators THEN camelizeSeparators(Tail(s), TRUE)
  ELSE << IF afterSep THEN toUpperCase(Head(s)) ELSE Head(s) >>
         \o camelizeSeparators(Tail(s), FALSE)

camelize(s) ==
  LET r == camelizeSeparators(s, FALSE)
  IN IF r = << >> THEN r ELSE << toLowerCase(Head(r)) >> \o Tail(r)

\* ---------------------------------------------------------------- constants
PLAYLIST_TYPE == << "p", "l", "s" >>

NUMBER_OF_ENTRIES ==
  << "N", "u", "m", "b", "e", "r", "o", "f", "e", "n", "t", "r", "i", "e", "s" >>

VERSION == << "V", "e", "r", "s", "i", "o", "n" >>

\* The literal that /^\[playlist\]/ matches at the start of the string.
HEADER == << "[", "p", "l", "a", "y", "l", "i", "s", "t", "]" >>

\* The alternatives of /^(File|Length|Title)\d+/.
TRACK_PROPERTIES ==
  { << "F", "i", "l", "e" >>,
    << "L", "e", "n", "g", "t", "h" >>,
    << "T", "i", "t", "l", "e" >> }

\* /^\[playlist\]/.test(s)
HeaderTest(s) == StartsWith(s, HEADER)

\* /^(File|Length|Title)/ in the place of /^(File|Length|Title)\d+/.
TrackPropertyMatcherTest_NoDigits(entry) ==
  \E p \in TRACK_PROPERTIES : StartsWith(entry, p)

\* TRACK_PROPERTY_MATCHER.test(entry)
TrackPropertyMatcherTest(entry) ==
  \E p \in TRACK_PROPERTIES :
    /\ StartsWith(entry, p)
    /\ Len(entry) > Len(p)
    /\ entry[Len(p) + 1] \in Digits

\* The keys of the objects the parser builds.
kNumberofentries == camelize(NUMBER_OF_ENTRIES)

kPlaylistType == << "p", "l", "a", "y", "l", "i", "s", "t", "T", "y", "p", "e" >>

kVersion == << "v", "e", "r", "s", "i", "o", "n" >>

kFile == << "f", "i", "l", "e" >>

kLength == << "l", "e", "n", "g", "t", "h" >>

kTitle == << "t", "i", "t", "l", "e" >>

\* let pls = {numberofentries: 0, playlistType: PLAYLIST_TYPE, tracks: [],
\* version: 2}; the tracks array is the variable `tracks`.
NewPls ==
  (<< "n", "u", "m", "b", "e", "r", "o", "f", "e", "n", "t", "r", "i", "e", "s" >>
      :> Num(0))
  @@ (kPlaylistType :> Str(PLAYLIST_TYPE))
  @@ (kVersion :> Num(2))

\* let track = {file: '', length: -1, title: ''}
NewTrack == (kFile :> Str(<< >>)) @@ (kLength :> Num(-1)) @@ (kTitle :> Str(<< >>))

\* ---------------------------------------------------------------- documents
FileKw == << "F", "i", "l", "e" >>

LengthKw == << "L", "e", "n", "g", "t", "h" >>

TitleKw == << "T", "i", "t", "l", "e" >>

NumberOfEntriesKw ==
  << "N", "u", "m", "b", "e", "r", "O", "f", "E", "n", "t", "r", "i", "e", "s" >>

\* The lines a document is made of after its first line: track-property
\* lines of two tracks, with and without `=`, the two metadata lines in
\* several shapes, and lines no rule matches.
LinePool ==
  { FileKw \o << "1", "=", "a" >>,
    FileKw \o << "1", "=", "b" >>,
    LengthKw \o << "1", "=", "5" >>,
    TitleKw \o << "2", "=", "b" >>,
    FileKw \o << "2", "1" >>,
    FileKw \o << "1" >>,
    NUMBER_OF_ENTRIES \o << "=", "2" >>,
    NumberOfEntriesKw \o << "=", "2" >>,
    NUMBER_OF_ENTRIES,
    VERSION \o << "=", "1" >>,
    VERSION \o << "=", "2", "=", "3" >>,
    VERSION,
    << >>,
    FileKw \o << "=", "a" >> }

\* The first line of a document: the header, nothing, the header in another
\* case, the header after a blank.
FirstLines ==
  { HEADER,
    << >>,
    << "[", "P", "l", "a", "y", "l", "i", "s", "t", "]" >>,
    << " " >> \o HEADER }

RECURSIVE Join(_)
Join(lines) ==
  IF Len(lines) = 1 THEN lines[1]
  ELSE lines[1] \o << "\n" >> \o Join(Tail(lines))

Tails == UNION { [1..n -> LinePool] : n \in 0..MaxLines }

Documents == { Join(<< first >> \o tail) : first \in FirstLines, tail \in Tails }

\* ---------------------------------------------------------------- state
VARIABLES
  pc,            \* position in plsParser: "call", "check", "loop", "done"
  arg,           \* the argument of the call, Undefined when omitted
  rawPls,        \* the parameter after its default is applied
  pls,           \* the result object (without its tracks array)
  tracks,        \* pls.tracks
  plsParts,      \* the lines forEach iterates
  idx,           \* number of entries forEach has passed to its callback
  createdTracks, \* object: track key -> position in pls.tracks
  trackEntries,  \* for each element of pls.tracks, the entry that pushed it
  errors         \* the calls of Logger.error, each the raw input it was given

vars ==
  << pc, arg, rawPls, pls, tracks, plsParts, idx, createdTracks, trackEntries,
     errors >>

Init ==
  /\ pc = "call"
  /\ arg \in {Undefined} \cup { Str(d) : d \in Documents }
  /\ rawPls = << >>
  /\ pls = << >>
  /\ tracks = << >>
  /\ plsParts = << >>
  /\ idx = 0
  /\ createdTracks = << >>
  /\ trackEntries = << >>
  /\ errors = << >>

\* export function plsParser(rawPls = '') { let pls = {...};
Enter ==
  /\ pc = "call"
  /\ rawPls' = IF arg = Undefined THEN << >> ELSE arg.v
  /\ pls' = NewPls
  /\ tracks' = << >>
  /\ pc' = "check"
  /\ UNCHANGED << arg, plsParts, idx, createdTracks, trackEntries, errors >>

\* if (!/^\[playlist\]/.test(rawPls)) { error(..., rawPls); return pls; }
RejectHeader ==
  /\ pc = "check"
  /\ ~HeaderTest(rawPls)
  /\ errors' = Append(errors, rawPls)
  /\ pc' = "done"
  /\ UNCHANGED << arg, rawPls, pls, tracks, plsParts, idx, createdTracks,
                  trackEntries >>

\* plsParts.unshift(): no element is given, so the array is left as it is.
Unshift(parts) == parts

\* let plsParts = rawPls.split(/\n/); plsParts.unshift();
\* let createdTracks = {};
SplitLines ==
  /\ pc = "check"
  /\ HeaderTest(rawPls)
  /\ plsParts' = Unshift(Split(rawPls, "\n"))
  /\ createdTracks' = << >>
  /\ idx' = 0
  /\ pc' = "loop"
  /\ UNCHANGED << arg, rawPls, pls, tracks, trackEntries, errors >>

\* The parts of a track-property entry.
EntryKey(entry) == Slice(entry, 0, IndexOf(entry, "="))

EntryValue(entry) == SliceFrom(entry, IndexOf(entry, "=") + 1)

TrackPropertyName(key) == camelize(Substring(key, 0, SearchDigit(key)))

ExistingTrackKey(key) == SubstringFrom(key, SearchDigit(key))

\* if (createdTracks[existingTrackKey])
HasCreatedTrack(created, trackKey) == Truthy(Get(created, trackKey))

\* The callback of plsParts.forEach, applied to the record st of the
\* objects it changes.
Callback(st, entry) ==
  IF TrackPropertyMatcherTest(entry) THEN
    LET key == EntryKey(entry)
        value == EntryValue(entry)
        trackPropertyName == TrackPropertyName(key)
        existingTrackKey == ExistingTrackKey(key)
    IN IF HasCreatedTrack(st.createdTracks, existingTrackKey) THEN
         LET position == Get(st.createdTracks, existingTrackKey).v
         IN [st EXCEPT !.tracks[position + 1] =
                         Put(@, trackPropertyName, Str(value))]
       ELSE
         LET track == Put(NewTrack, trackPropertyName, Str(value))
             pushed == Append(st.tracks, track)
         IN [st EXCEPT !.tracks = pushed,
                       !.createdTracks =
                          Put(@, existingTrackKey, Num(Len(pushed) - 1)),
                       !.trackEntries = Append(@, entry)]
  ELSE IF StartsWith(entry, NUMBER_OF_ENTRIES) THEN
    [st EXCEPT !.pls = Put(@, camelize(NUMBER_OF_ENTRIES), SplitSecond(entry))]
  ELSE IF StartsWith(entry, VERSION) THEN
    [st EXCEPT !.pls = Put(@, camelize(VERSION), SplitSecond(entry))]
  ELSE st

Objects ==
  [pls |-> pls, tracks |-> tracks, createdTracks |-> createdTracks,
   trackEntries |-> trackEntries]

\* One iteration of plsParts.forEach.
ForEachEntry ==
  /\ pc = "loop"
  /\ idx < Len(plsParts)
  /\ LET st == Callback(Objects, plsParts[idx + 1])
     IN /\ pls' = st.pls
        /\ tracks' = st.tracks
        /\ createdTracks' = st.createdTracks
        /\ trackEntries' = st.trackEntries
  /\ idx' = idx + 1
  /\ UNCHANGED << pc, arg, rawPls, plsParts, errors >>

Entry == plsParts[idx + 1]

\* The branches of the callback.
UpdateTrack ==
  /\ pc = "loop" /\ idx < Len(plsParts)
  /\ TrackPropertyMatcherTest(Entry)
  /\ HasCreatedTrack(createdTracks, ExistingTrackKey(EntryKey(Entry)))
  /\ ForEachEntry

CreateTrack ==
  /\ pc = "loop" /\ idx < Len(plsParts)
  /\ TrackPropertyMatcherTest(Entry)
  /\ ~HasCreatedTrack(createdTracks, ExistingTrackKey(EntryKey(Entry)))
  /\ ForEachEntry

SetNumberOfEntries ==
  /\ pc = "loop" /\ idx < Len(plsParts)
  /\ ~TrackPropertyMatcherTest(Entry)
  /\ StartsWith(Entry, NUMBER_OF_ENTRIES)
  /\ ForEachEntry

SetVersion ==
  /\ pc = "loop" /\ idx < Len(plsParts)
  /\ ~TrackPropertyMatcherTest(Entry)
  /\ ~StartsWith(Entry, NUMBER_OF_ENTRIES)
  /\ StartsWith(Entry, VERSION)
  /\ ForEachEntry

SkipEntry ==
  /\ pc = "loop" /\ idx < Len(plsParts)
  /\ ~TrackPropertyMatcherTest(Entry)
  /\ ~StartsWith(Entry, NUMBER_OF_ENTRIES)
  /\ ~StartsWith(Entry, VERSION)
  /\ ForEachEntry

\* return pls;
Return ==
  /\ pc = "loop"
  /\ idx = Len(plsParts)
  /\ pc' = "done"
  /\ UNCHANGED << arg, rawPls, pls, tracks, plsParts, idx, createdTracks,
                  trackEntries, errors >>

Next ==
  \/ Enter
  \/ RejectHeader
  \/ SplitLines
  \/ UpdateTrack
  \/ CreateTrack
  \/ SetNumberOfEntries
  \/ SetVersion
  \/ SkipEntry
  \/ Return

Spec == Init /\ [][Next]_vars

\* ---------------------------------------------------------------- the document as the specification reads it
\* The lines the callback has been applied to.
Processed == SubSeq(plsParts, 1, idx)

DocStartsWith(l, p) == Len(l) >= Len(p) /\ \A i \in 1..Len(p) : l[i] = p[i]

DocHasHeader(d) == DocStartsWith(d, HEADER)

DocHasEq(l) == \E i \in 1..Len(l) : l[i] = "="

DocKeywords == {FileKw, LengthKw, TitleKw}

\* File<d>, Length<d> or Title<d>: a keyword and at once a digit.
DocIsTrackLine(l) ==
  \E kw \in DocKeywords :
    DocStartsWith(l, kw) /\ Len(l) > Len(kw) /\ l[Len(kw) + 1] \in Digits

DocKeyword(l) == CHOOSE kw \in DocKeywords : DocStartsWith(l, kw)

\* The field of a Track that a track-property line is for.
DocField(l) ==
  CASE DocKeyword(l) = FileKw -> kFile
    [] DocKeyword(l) = LengthKw -> kLength
    [] DocKeyword(l) = TitleKw -> kTitle

\* 1-based position of the first `=`, one past the end when there is none.
DocEqPos(l) ==
  IF DocHasEq(l) THEN CHOOSE i \in 1..Len(l) :
                        l[i] = "=" /\ \A j \in 1..(i - 1) : l[j] # "="
  ELSE Len(l) + 1

\* The index suffix: from the first digit of the key to its end.
DocSuffix(l) == SubSeq(l, Len(DocKeyword(l)) + 1, DocEqPos(l) - 1)

\* Everything after the first `=`.
DocValue(l) == SubSeq(l, DocEqPos(l) + 1, Len(l))

\* What follows the first `=` up to the next `=` or the end of the line.
DocValueToNextEq(l) ==
  LET rest == DocValue(l)
  IN IF DocHasEq(rest) THEN SubSeq(rest, 1, DocEqPos(rest) - 1) ELSE rest

DocIsRecognised(l) ==
  \/ DocIsTrackLine(l)
  \/ DocStartsWith(l, NUMBER_OF_ENTRIES)
  \/ DocStartsWith(l, VERSION)

\* Every track-property line carries an `=`.
DocWellFormed(lines) ==
  \A i \in 1..Len(lines) : DocIsTrackLine(lines[i]) => DocHasEq(lines[i])

TrackLineIndices(lines) == { i \in 1..Len(lines) : DocIsTrackLine(lines[i]) }

\* The distinct index suffixes of the lines, in the order of their first
\* appearance.
RECURSIVE FirstAppearances(_, _)
FirstAppearances(lines, seen) ==
  IF lines = << >> THEN seen
  ELSE LET l == Head(lines)
       IN IF DocIsTrackLine(l) /\ \A k \in 1..Len(seen) : seen[k] # DocSuffix(l)
          THEN FirstAppearances(Tail(lines), Append(seen, DocSuffix(l)))
          ELSE FirstAppearances(Tail(lines), seen)

\* The index suffix of the k-th Track: that of the line that introduced it.
TrackSuffix(k) == DocSuffix(trackEntries[k])

VersionLineIndices(lines) ==
  { i \in 1..Len(lines) : DocStartsWith(lines[i], VERSION) }

LastOf(S) == CHOOSE i \in S : \A j \in S : j <= i

kNumberOfEntries ==
  << "n", "u", "m", "b", "e", "r", "O", "f", "E", "n", "t", "r", "i", "e", "s" >>

\* The header check has passed: the lines are being, or have been, iterated.
Running == pc \in {"loop", "done"} /\ DocHasHeader(rawPls)

\* ---------------------------------------------------------------- claims

\* C1: after any prefix of the lines of a document with a header, tracks
\* holds exactly one Track per distinct index suffix seen on a
\* track-property line (stated for lines that carry an `=`).
C1_OneTrackPerSuffix ==
  (Running /\ DocWellFormed(Processed)) =>
    Len(tracks) =
      Cardinality({ DocSuffix(Processed[i]) : i \in TrackLineIndices(Processed) })

\* C2: for an input that does not start with [playlist] the result is
\* {numberOfEntries: 0, playlistType: 'pls', tracks: [], version: 2}, one
\* diagnostic carrying the raw input is emitted and no line is processed;
\* for an input that starts with [playlist] no diagnostic is emitted.
C2_InvalidHeaderResult ==
  pc = "done" =>
    IF DocHasHeader(rawPls) THEN errors = << >>
    ELSE /\ Get(pls, kNumberOfEntries) = Num(0)
         /\ Get(pls, kPlaylistType) = Str(PLAYLIST_TYPE)
         /\ Get(pls, kVersion) = Num(2)
         /\ tracks = << >>
         /\ errors = << rawPls >>
         /\ idx = 0

\* C3: the result's numberOfEntries is the value after `=` on the
\* document's NumberOfEntries=<v> line, and 0 when there is no such line.
C3_NumberOfEntries ==
  (pc = "done" /\ DocHasHeader(rawPls)) =>
    LET S == { i \in 1..Len(plsParts) :
                 DocStartsWith(plsParts[i], NumberOfEntriesKw \o << "=" >>) }
    IN IF S = {} THEN Get(pls, kNumberOfEntries) = Num(0)
       ELSE Get(pls, kNumberOfEntries) = Str(DocValue(plsParts[LastOf(S)]))

\* C4: last-seen-wins: for every property P and index suffix s with a line
\* `P s=<value>`, there is a single Track for s and its field P is the
\* value of the last such line (stated for lines that carry an `=`).
C4_LastSeenWins ==
  (pc = "done" /\ DocHasHeader(rawPls) /\ DocWellFormed(plsParts)) =>
    \A i \in TrackLineIndices(plsParts) :
      LET s == DocSuffix(plsParts[i])
          P == DocField(plsParts[i])
          same == { j \in TrackLineIndices(plsParts) :
                      DocSuffix(plsParts[j]) = s /\ DocField(plsParts[j]) = P }
          tracksOfS == { k \in 1..Len(tracks) : TrackSuffix(k) = s }
      IN /\ Cardinality(tracksOfS) = 1
         /\ \A k \in tracksOfS :
              Get(tracks[k], P) = Str(DocValue(plsParts[LastOf(same)]))

\* C5: track i of tracks is the track of the i-th distinct index suffix of
\* the document (stated for lines that carry an `=`).
C5_OrderOfFirstAppearance ==
  (pc = "done" /\ DocHasHeader(rawPls) /\ DocWellFormed(plsParts)) =>
    [k \in 1..Len(tracks) |-> TrackSuffix(k)] = FirstAppearances(plsParts, << >>)

\* C6: a line without `=` that starts like a track-property line, like
\* Numberofentries or like Version leaves tracks, the entry count and
\* version as they were and emits no diagnostic.
C6_LineWithoutEqIsIgnored ==
  [][(/\ pc = "loop"
      /\ idx < Len(plsParts)
      /\ ~DocHasEq(plsParts[idx + 1])
      /\ DocIsRecognised(plsParts[idx + 1]))
     => UNCHANGED << tracks, pls, errors >>]_vars

\* The last line that starts with Version.
LastVersionLine == plsParts[LastOf(VersionLineIndices(plsParts))]

\* C7 as stated: version is everything after the first `=` of the last line
\* that starts with Version, further `=` included, and 2 without such a line.
C7_VersionIsRestOfLine ==
  (pc = "done" /\ DocHasHeader(rawPls)) =>
    IF VersionLineIndices(plsParts) = {} THEN Get(pls, kVersion) = Num(2)
    ELSE DocHasEq(LastVersionLine) =>
           Get(pls, kVersion) = Str(DocValue(LastVersionLine))

\* C7 as amended: version is what stands between the first `=` of the last
\* line that starts with Version and that line's next `=` (its end when
\* there is none), and 2 without such a line.
C7_VersionIsSecondPart ==
  (pc = "done" /\ DocHasHeader(rawPls)) =>
    IF VersionLineIndices(plsParts) = {} THEN Get(pls, kVersion) = Num(2)
    ELSE DocHasEq(LastVersionLine) =>
           Get(pls, kVersion) = Str(DocValueToNextEq(LastVersionLine))

\* A parse has ended whose last Version line has a second `=`.
C7_Witness ==
  /\ pc = "done"
  /\ VersionLineIndices(plsParts) # {}
  /\ DocHasEq(LastVersionLine)
  /\ DocHasEq(DocValue(LastVersionLine))
  /\ Get(pls, kVersion) = Str(<< "2" >>)

\* The objects before the first line, and the callback applied to a
\* sequence of lines in order.
StartObjects ==
  [pls |-> NewPls, tracks |-> << >>, createdTracks |-> << >>,
   trackEntries |-> << >>]

RECURSIVE RunCallback(_, _)
RunCallback(st, lines) ==
  IF lines = << >> THEN st
  ELSE RunCallback(Callback(st, Head(lines)), Tail(lines))

\* C8: lines that match none of the three rules are no-ops: after any
\* prefix of the lines, tracks, the result's fields (playlistType among
\* them) and the suffix-to-position mapping are what the same lines give
\* with every such line removed, and no diagnostic is emitted.
C8_UnrecognisedLinesAreNoOps ==
  Running =>
    /\ Objects = RunCallback(StartObjects, SelectSeq(Processed, DocIsRecognised))
    /\ errors = << >>

\* A parse has ended that created tracks and set a field, of a document
\* with an unrecognised line after its first line.
C8_Witness ==
  /\ pc = "done"
  /\ Len(tracks) > 0
  /\ pls # NewPls
  /\ \E i \in 2..Len(plsParts) : ~DocIsRecognised(plsParts[i])

\* C9: a field of a Track differs from its default only if a line for that
\* property and that Track's index suffix has occurred.
C9_DefaultsUnlessLineSeen ==
  Running =>
    \A k \in 1..Len(tracks) : \A P \in {kFile, kLength, kTitle} :
      Get(tracks[k], P) # NewTrack[P] =>
        \E i \in TrackLineIndices(Processed) :
          /\ DocField(Processed[i]) = P
          /\ DocSuffix(Processed[i]) = TrackSuffix(k)

\* C10: the lines that are iterated are the split lines without the first.
C10_FirstLineDiscarded ==
  Running => plsParts = Tail(Split(rawPls, "\n"))

====
